---- MODULE Spec2Model ----
(***************************************************************************)
(* BeerPi: the acquisition-and-fan-out pipeline of sutonimh/beerpi.        *)
(*                                                                         *)
(* The repository holds two programs that run the polling loop:            *)
(*   temp_control.py (with mqtt_handler.py): DS18B20 or simulated data,    *)
(*       relational insert + two bus publishes per tick, broker session    *)
(*       with a start-up retry loop and a network thread (loop_start);     *)
(*   beerpi.py: DS18B20 + GPIO relay, two bus publishes + one time-series  *)
(*       point per tick, discovery at start-up, SIGINT/SIGTERM handler.    *)
(* prog says which of the two the process is.  Temperatures are integers   *)
(* in millidegrees Celsius (the sensor's unit).                            *)
(***************************************************************************)
EXTENDS Integers, Sequences, FiniteSets

(* ---- bounds of the model ---- *)
MaxConsec == 3
MaxEpoch == 2

(* ---- program constants ---- *)
max_retries == 5

\* Python's None for a temperature: an integer outside the sensor's range
None == -999999
NoPub == [topic |-> "none", payload |-> "none", retain |-> FALSE,
          disc |-> FALSE, outcome |-> "none", log |-> "none", raised |-> FALSE]
NoPoint == [written |-> FALSE, temperature |-> 0, relay |-> 0]
NoSinks == [db |-> "none", busT |-> "none", busR |-> "none", ts |-> "none"]

(* the ends of random.uniform(18.0, 25.0), in millidegrees *)
SimLow == 18000
SimHigh == 25000

(* millidegree values a DS18B20 payload may carry, and simulated draws *)
MilliVals == {-1500, 21437}
SimTemps == {18000, 25000}
SimRelays == {"ON", "OFF"}

(* what /sys/bus/w1/devices/28-*/w1_slave can hold when it is read *)
Payloads ==
    {[open |-> FALSE, ready |-> FALSE, hasT |-> FALSE, milli |-> 0]}
    \cup {[open |-> TRUE, ready |-> r, hasT |-> h, milli |-> m] :
             r \in BOOLEAN, h \in BOOLEAN, m \in MilliVals}

VARIABLES
    prog,              \* "temp_control" | "beerpi"
    pc,                \* position of the main thread
    brokerUp,          \* environment: the broker accepts connections
    conn,              \* broker session: none | tcp | connected | lost | closed
    loopStarted,       \* mqtt_client.loop_start() was called
    nt,                \* network thread: idle | on_connect | dead
    rc,                \* return code handed to on_connect
    attempt,           \* loop index of the start-up retry loop
    sleeps,            \* time.sleep(retry_delay) calls made by the retry loop
    gaveUp,            \* the retry loop logged its critical give-up message
    SIMULATE_SENSORS,  \* temp_control's mode flag
    data_mode,         \* mqtt_handler.data_mode
    temperature,       \* the tick's temperature (millidegrees) or None
    relay_state,       \* the tick's relay state
    tempSrc,           \* history: "live" | "sim" | "none", how temperature was obtained
    readFailed,        \* history: the live read of this tick returned None
    consecFails,       \* history: consecutive failed live reads (saturating)
    sinks,             \* per tick: which sink writes were attempted, and how they ended
    point,             \* the time-series point of this tick
    lastPub,           \* the last publish call the main thread made in this tick
    netPub,            \* the last publish call the network thread made in this epoch
    early,             \* history: in this epoch a data message of a sample produced
                       \* after its CONNECTED went out before any status publish
    statusCalls,       \* status publishes on_connect made in this epoch (saturating)
    discCalls,         \* discovery publish calls made
    epoch,             \* CONNECTED transitions so far (saturating)
    sampleAfterConn,   \* history: the sample was produced after this epoch's CONNECTED
    handlers,          \* SIGINT/SIGTERM handlers are registered
    gpioCleaned,       \* GPIO.cleanup() ran
    sigAt,             \* pc at which the termination signal arrived, or "none"
    readKind,          \* the branch the sensor read that has just returned took;
                       \* "none" once the main thread has moved on
    gpio,              \* history: what the last GPIO.input call did, or "none"
    current_temperature,  \* mqtt_handler.current_temperature
    current_relay_state,  \* mqtt_handler.current_relay_state
    w1_slave           \* the w1_slave file handed to the parser: can it be opened, its lines

vars == <<prog, pc, brokerUp, conn, loopStarted, nt, rc, attempt, sleeps, gaveUp,
          SIMULATE_SENSORS, data_mode, temperature, relay_state, tempSrc,
          readFailed, consecFails, sinks, point, lastPub, netPub, early, statusCalls,
          discCalls, epoch, sampleAfterConn, handlers, gpioCleaned, sigAt,
          readKind, gpio, current_temperature, current_relay_state, w1_slave>>

mqttVars == <<conn, loopStarted, nt, rc, attempt, sleeps, gaveUp, statusCalls, epoch>>
modeVars == <<SIMULATE_SENSORS, data_mode>>
sampleVars == <<temperature, relay_state, tempSrc, readFailed, consecFails,
                sampleAfterConn>>
readVars == <<readKind, gpio>>
msgVars == <<current_temperature, current_relay_state>>
sigVars == <<handlers, gpioCleaned, sigAt>>

Min(a, b) == IF a < b THEN a ELSE b

\* where the main thread ends, and the steps of cleanup()
Terminal == {"exc_connect", "exc_discovery", "exc_tick", "exit0", "killed"}
CleanupPcs == {"cl_gpio", "cl_disconnect", "cl_exit"}
Running == pc \notin Terminal

Init ==
    /\ prog \in {"temp_control", "beerpi"}
    /\ pc = IF prog = "temp_control" THEN "mqtt_connect" ELSE "bp_connect"
    /\ brokerUp \in BOOLEAN
    /\ conn = "none"
    /\ loopStarted = FALSE
    /\ nt = "idle"
    /\ rc = 0
    /\ attempt = 0
    /\ sleeps = 0
    /\ gaveUp = FALSE
    /\ SIMULATE_SENSORS = FALSE
    /\ data_mode = "unset"
    /\ temperature = None
    /\ relay_state = "unset"
    /\ tempSrc = "none"
    /\ readFailed = FALSE
    /\ consecFails = 0
    /\ sinks = NoSinks
    /\ point = NoPoint
    /\ lastPub = NoPub
    /\ netPub = NoPub
    /\ early = FALSE
    /\ statusCalls = 0
    /\ discCalls = 0
    /\ epoch = 0
    /\ sampleAfterConn = FALSE
    /\ handlers = FALSE
    /\ gpioCleaned = FALSE
    /\ sigAt = "none"
    /\ readKind = "none"
    /\ gpio = "none"
    /\ current_temperature = "None"
    /\ current_relay_state = "Unknown"
    /\ w1_slave = [open |-> FALSE, lines |-> <<>>]

(***************************************************************************)
(* The paho client, as the repository uses it.                             *)
(***************************************************************************)
T_STATUS == "home/beerpi/status"
T_TEMP == "home/beerpi/temperature"
T_RELAY == "home/beerpi/relay_state"
MQTT_TOPIC_TEMPERATURE == "beerpi/temperature"
MQTT_TOPIC_RELAY == "beerpi/relay"
temp_config_topic == "homeassistant/sensor/beerpi_temperature/config"
relay_config_topic == "homeassistant/binary_sensor/beerpi_relay/config"

DataTopics == {T_TEMP, T_RELAY, MQTT_TOPIC_TEMPERATURE, MQTT_TOPIC_RELAY}
DiscTopics == {temp_config_topic, relay_config_topic}

\* the session has a socket: publish writes to it
Up(c) == c \in {"tcp", "connected"}

\* mqtt_client.publish: with a socket the message goes out, without one the call
\* returns an error code (MQTT_ERR_NO_CONN); either way the call may raise
\* (the repository guards it with try/except in publish_message)
PubOutcomes(c) == IF Up(c) THEN {"sent", "raise"} ELSE {"noconn", "raise"}

\* a data message of a sample produced after this epoch's CONNECTED transition
\* reaches the broker before on_connect has published the epoch's status
Early(topic, o) ==
    early \/ (o = "sent" /\ topic \in DataTopics /\ sampleAfterConn
              /\ statusCalls = 0)

(***************************************************************************)
(* mqtt_handler.py                                                         *)
(***************************************************************************)

\* publish_message without its try/except: the client's exception reaches the caller
publish_messageUnguarded(topic, payload, o) ==
    /\ lastPub' = [topic |-> topic, payload |-> payload, retain |-> FALSE,
                   disc |-> ~Up(conn), outcome |-> o,
                   log |-> IF o = "raise" THEN "error" ELSE "info",
                   raised |-> (o = "raise")]
    /\ early' = Early(topic, o)

\* lines 94-100: publish_message(topic, message, retain=False); o is what
\* mqtt_client.publish did.  Nothing is counted; the error is logged only in
\* the except branch; the caller never sees an exception.
publish_message(topic, payload, o) ==
    /\ lastPub' = [topic |-> topic, payload |-> payload, retain |-> FALSE,
                   disc |-> ~Up(conn), outcome |-> o,
                   log |-> IF o = "raise" THEN "error" ELSE "info",
                   raised |-> FALSE]
    /\ early' = Early(topic, o)

\* lines 79-89, one attempt of the retry loop that succeeds:
\* connect() returns, loop_start() starts the network thread, break
ConnectOk ==
    /\ brokerUp
    /\ conn' = "tcp"
    /\ loopStarted' = TRUE
    /\ pc' = "detect"
    /\ UNCHANGED <<attempt, sleeps, gaveUp>>

\* the failing attempt with loop_start() outside the try: the network thread
\* runs although no attempt succeeded
ConnectFailedStartsLoop ==
    /\ ~brokerUp
    /\ IF attempt < max_retries - 1
       THEN pc' = "retry_sleep" /\ gaveUp' = gaveUp /\ loopStarted' = loopStarted
       ELSE pc' = "detect" /\ gaveUp' = TRUE /\ loopStarted' = TRUE
    /\ UNCHANGED <<conn, attempt, sleeps>>

\* the failing attempt with the sleep outside the `if`: the loop waits the retry
\* delay after its last attempt too
ConnectFailedSleepsAfterLast ==
    /\ ~brokerUp
    /\ IF attempt < max_retries - 1
       THEN pc' = "retry_sleep" /\ gaveUp' = gaveUp /\ sleeps' = sleeps
       ELSE pc' = "detect" /\ gaveUp' = TRUE /\ sleeps' = sleeps + 1
    /\ UNCHANGED <<conn, loopStarted, attempt>>

\* lines 84-89, one attempt that raises: sleep unless it was the last one
ConnectFailed ==
    /\ ~brokerUp
    /\ IF attempt < max_retries - 1
       THEN pc' = "retry_sleep" /\ gaveUp' = gaveUp
       ELSE pc' = "detect" /\ gaveUp' = TRUE
    /\ UNCHANGED <<conn, loopStarted, attempt, sleeps>>

MqttConnect ==
    /\ prog = "temp_control"
    /\ pc = "mqtt_connect"
    /\ (ConnectOk \/ ConnectFailed)
    /\ UNCHANGED <<msgVars, w1_slave, readVars, prog, brokerUp, nt, rc, statusCalls,
                   epoch, modeVars, sampleVars, sinks, point, lastPub, netPub, early,
                   discCalls, sigVars>>

\* line 87 and the next iteration of `for attempt in range(max_retries)`
RetrySleep ==
    /\ prog = "temp_control"
    /\ pc = "retry_sleep"
    /\ sleeps' = sleeps + 1
    /\ attempt' = attempt + 1
    /\ pc' = "mqtt_connect"
    /\ UNCHANGED <<msgVars, w1_slave, readVars, prog, brokerUp, conn, loopStarted, nt,
                   rc, gaveUp, statusCalls, epoch, modeVars, sampleVars, sinks, point,
                   lastPub, netPub, early, discCalls, sigVars>>

\* the network thread started by loop_start() (line 82) receives the CONNACK and
\* enters on_connect with its return code; rc = 0 is the CONNECTED transition
ConnAck(r) ==
    /\ prog = "temp_control"
    /\ Running
    /\ loopStarted
    /\ nt = "idle"
    /\ conn = "tcp"
    /\ rc' = r
    /\ nt' = "on_connect"
    /\ IF r = 0
       THEN /\ conn' = "connected"
            /\ epoch' = Min(epoch + 1, MaxEpoch)
            /\ statusCalls' = 0
            /\ netPub' = NoPub
            /\ early' = FALSE
            /\ sampleAfterConn' = FALSE
       ELSE /\ conn' = "lost"
            /\ UNCHANGED <<epoch, statusCalls, netPub, early, sampleAfterConn>>
    /\ UNCHANGED <<msgVars, w1_slave, readVars, prog, pc, brokerUp, loopStarted,
                   attempt, sleeps, gaveUp, modeVars, temperature, relay_state,
                   tempSrc, readFailed, consecFails, sinks, point, lastPub, discCalls,
                   sigVars>>

\* on_connect without its `if rc == 0`: the status goes out on a refused CONNACK too
on_connectIgnoringRc(o) ==
    /\ statusCalls' = Min(statusCalls + 1, 2)
    /\ netPub' = [topic |-> T_STATUS, payload |-> "online", retain |-> TRUE,
                  disc |-> ~Up(conn), outcome |-> o, log |-> "none",
                  raised |-> (o = "raise")]
    /\ nt' = IF o = "raise" THEN "dead" ELSE "idle"

\* lines 48-57: on_connect(client, userdata, flags, rc); o is what
\* client.publish did.  An exception leaving the callback ends the thread.
on_connect(o) ==
    IF rc = 0
    THEN /\ statusCalls' = Min(statusCalls + 1, 2)
         /\ netPub' = [topic |-> T_STATUS, payload |-> "online", retain |-> TRUE,
                       disc |-> ~Up(conn), outcome |-> o, log |-> "none",
                       raised |-> (o = "raise")]
         /\ nt' = IF o = "raise" THEN "dead" ELSE "idle"
    ELSE /\ nt' = "idle"
         /\ UNCHANGED <<statusCalls, netPub>>

OnConnect ==
    /\ prog = "temp_control"
    /\ Running
    /\ nt = "on_connect"
    /\ \E o \in PubOutcomes(conn) : on_connect(o)
    /\ UNCHANGED <<msgVars, w1_slave, readVars, prog, pc, brokerUp, conn, loopStarted,
                   rc, attempt, sleeps, gaveUp, epoch, modeVars, sampleVars, sinks,
                   point, lastPub, early, discCalls, sigVars>>

\* the network thread of loop_start() reconnects a session that was lost
NetReconnect ==
    /\ prog = "temp_control"
    /\ Running
    /\ loopStarted
    /\ nt = "idle"
    /\ conn = "lost"
    /\ brokerUp
    /\ conn' = "tcp"
    /\ UNCHANGED <<msgVars, w1_slave, readVars, prog, pc, brokerUp, loopStarted, nt,
                   rc, attempt, sleeps, gaveUp, statusCalls, epoch, modeVars,
                   sampleVars, sinks, point, lastPub, netPub, early, discCalls,
                   sigVars>>

\* what the broker may deliver: the topics on_connect subscribes to (lines 53-55)
\* and payloads; "undecodable" stands for bytes that are not UTF-8
MsgTopics == {T_TEMP, T_RELAY, "home/beerpi/config/interval"}
MsgPayloads == {"21.44", "ON", "undecodable"}

\* a configuration message switching the reported mode from the network thread
OnMessageSettingMode ==
    /\ prog = "temp_control"
    /\ Running
    /\ loopStarted
    /\ nt = "idle"
    /\ conn = "connected"
    /\ \E topic \in MsgTopics, payload \in MsgPayloads :
          IF payload = "undecodable"
          THEN nt' = "dead" /\ UNCHANGED <<msgVars, data_mode>>
          ELSE /\ nt' = nt
               /\ IF topic = T_TEMP
                  THEN /\ current_temperature' = payload
                       /\ UNCHANGED <<current_relay_state, data_mode>>
                  ELSE IF topic = T_RELAY
                  THEN /\ current_relay_state' = payload
                       /\ UNCHANGED <<current_temperature, data_mode>>
                  ELSE /\ data_mode' = "Simulated Data"
                       /\ UNCHANGED msgVars
    /\ UNCHANGED <<w1_slave, readVars, prog, pc, brokerUp, conn, loopStarted, rc,
                   attempt, sleeps, gaveUp, statusCalls, epoch, SIMULATE_SENSORS,
                   sampleVars, sinks, point, lastPub, netPub, early, discCalls,
                   sigVars>>

\* lines 59-67: on_message(client, userdata, msg).  msg.payload.decode() raises
\* on bytes that are not UTF-8, before the globals are touched; an exception
\* leaving the callback ends the thread.
on_message(topic, payload) ==
    IF payload = "undecodable"
    THEN nt' = "dead" /\ UNCHANGED msgVars
    ELSE /\ nt' = nt
         /\ IF topic = T_TEMP
            THEN current_temperature' = payload /\ UNCHANGED current_relay_state
            ELSE IF topic = T_RELAY
            THEN current_relay_state' = payload /\ UNCHANGED current_temperature
            ELSE UNCHANGED msgVars

\* the network thread delivers a message of the session to on_message
OnMessage ==
    /\ prog = "temp_control"
    /\ Running
    /\ loopStarted
    /\ nt = "idle"
    /\ conn = "connected"
    /\ \E topic \in MsgTopics, payload \in MsgPayloads : on_message(topic, payload)
    /\ UNCHANGED <<w1_slave, readVars, prog, pc, brokerUp, conn, loopStarted, rc,
                   attempt, sleeps, gaveUp, statusCalls, epoch, modeVars, sampleVars,
                   sinks, point, lastPub, netPub, early, discCalls, sigVars>>

(***************************************************************************)
(* temp_control.py                                                         *)
(***************************************************************************)

\* read_temp_sensor without the check of the ready marker (lines 105-107 lost)
read_temp_sensorIgnoringMarker(p) ==
    IF ~p.open THEN None
    ELSE IF p.hasT THEN p.milli
    ELSE None

\* lines 96-118: read_temp_sensor(sensor_path), the temperature in millidegrees
\* (the code returns it divided by 1000.0) or None
read_temp_sensor(p) ==
    IF ~p.open THEN None
    ELSE IF ~p.ready THEN None
    ELSE IF p.hasT THEN p.milli
    ELSE None

\* which branch of lines 99-118 (beerpi.py 119-136) the payload p takes
Kind(p) ==
    IF ~p.open THEN "io_error"
    ELSE IF ~p.ready THEN "not_ready"
    ELSE IF p.hasT THEN "ok"
    ELSE "no_t"

\* lines 123-132: the device probe at start-up sets the mode
Detect ==
    /\ prog = "temp_control"
    /\ pc = "detect"
    /\ \E present \in BOOLEAN :
          /\ SIMULATE_SENSORS' = ~present
          /\ data_mode' = IF present THEN "Live Data" ELSE "Simulated Data"
    /\ pc' = "acquire"
    /\ UNCHANGED <<msgVars, w1_slave, readVars, prog, brokerUp, mqttVars, sampleVars,
                   sinks, point, lastPub, netPub, early, discCalls, sigVars>>

\* the loop with the demotion the mode arbiter would apply: the third consecutive
\* failed live read switches the mode to simulated
SampleDemoting(live, st, sr) ==
    /\ IF SIMULATE_SENSORS
       THEN /\ temperature' = st
            /\ relay_state' = sr
            /\ tempSrc' = "sim"
            /\ readFailed' = FALSE
            /\ consecFails' = consecFails
            /\ UNCHANGED modeVars
       ELSE IF live = None
            THEN /\ temperature' = st
                 /\ relay_state' = sr
                 /\ tempSrc' = "sim"
                 /\ readFailed' = TRUE
                 /\ consecFails' = Min(consecFails + 1, MaxConsec)
                 /\ IF consecFails + 1 >= 3
                    THEN SIMULATE_SENSORS' = TRUE /\ data_mode' = "Simulated Data"
                    ELSE UNCHANGED modeVars
            ELSE /\ temperature' = live
                 /\ relay_state' = "OFF"
                 /\ tempSrc' = "live"
                 /\ readFailed' = FALSE
                 /\ consecFails' = 0
                 /\ UNCHANGED modeVars
    /\ pc' = "insert"

\* the loop discarding the sample of a failed live read (`continue` after the
\* sleep) instead of substituting simulated values
SampleSkipping(live, st, sr) ==
    /\ IF SIMULATE_SENSORS
       THEN /\ temperature' = st
            /\ relay_state' = sr
            /\ tempSrc' = "sim"
            /\ readFailed' = FALSE
            /\ consecFails' = consecFails
            /\ pc' = "insert"
       ELSE IF live = None
            THEN /\ temperature' = None
                 /\ relay_state' = "OFF"
                 /\ tempSrc' = "none"
                 /\ readFailed' = TRUE
                 /\ consecFails' = Min(consecFails + 1, MaxConsec)
                 /\ pc' = "sleep"
            ELSE /\ temperature' = live
                 /\ relay_state' = "OFF"
                 /\ tempSrc' = "live"
                 /\ readFailed' = FALSE
                 /\ consecFails' = 0
                 /\ pc' = "insert"
    /\ UNCHANGED modeVars

\* the loop drawing the relay state at random on every tick, also beside a
\* temperature the device delivered (line 155 lost)
SampleLiveRelayDrawn(live, st, sr) ==
    /\ IF SIMULATE_SENSORS
       THEN /\ temperature' = st
            /\ relay_state' = sr
            /\ tempSrc' = "sim"
            /\ readFailed' = FALSE
            /\ consecFails' = consecFails
       ELSE IF live = None
            THEN /\ temperature' = st
                 /\ relay_state' = sr
                 /\ tempSrc' = "sim"
                 /\ readFailed' = TRUE
                 /\ consecFails' = Min(consecFails + 1, MaxConsec)
            ELSE /\ temperature' = live
                 /\ relay_state' = sr
                 /\ tempSrc' = "live"
                 /\ readFailed' = FALSE
                 /\ consecFails' = 0
    /\ UNCHANGED modeVars
    /\ pc' = "insert"

\* the loop substituting the placeholder 0.0 with relay OFF, instead of a random
\* draw, when the live read failed
SampleFallbackZero(live, st, sr) ==
    /\ IF SIMULATE_SENSORS
       THEN /\ temperature' = st
            /\ relay_state' = sr
            /\ tempSrc' = "sim"
            /\ readFailed' = FALSE
            /\ consecFails' = consecFails
       ELSE IF live = None
            THEN /\ temperature' = 0
                 /\ relay_state' = "OFF"
                 /\ tempSrc' = "sim"
                 /\ readFailed' = TRUE
                 /\ consecFails' = Min(consecFails + 1, MaxConsec)
            ELSE /\ temperature' = live
                 /\ relay_state' = "OFF"
                 /\ tempSrc' = "live"
                 /\ readFailed' = FALSE
                 /\ consecFails' = 0
    /\ UNCHANGED modeVars
    /\ pc' = "insert"

\* the loop probing again while it simulates: a read that delivers a value
\* switches the mode to live
SampleReprobing(live, st, sr) ==
    /\ IF SIMULATE_SENSORS
       THEN IF live /= None
            THEN /\ temperature' = live
                 /\ relay_state' = "OFF"
                 /\ tempSrc' = "live"
                 /\ readFailed' = FALSE
                 /\ consecFails' = 0
                 /\ SIMULATE_SENSORS' = FALSE
                 /\ data_mode' = "Live Data"
            ELSE /\ temperature' = st
                 /\ relay_state' = sr
                 /\ tempSrc' = "sim"
                 /\ readFailed' = FALSE
                 /\ consecFails' = consecFails
                 /\ UNCHANGED modeVars
       ELSE IF live = None
            THEN /\ temperature' = st
                 /\ relay_state' = sr
                 /\ tempSrc' = "sim"
                 /\ readFailed' = TRUE
                 /\ consecFails' = Min(consecFails + 1, MaxConsec)
                 /\ UNCHANGED modeVars
            ELSE /\ temperature' = live
                 /\ relay_state' = "OFF"
                 /\ tempSrc' = "live"
                 /\ readFailed' = FALSE
                 /\ consecFails' = 0
                 /\ UNCHANGED modeVars
    /\ pc' = "insert"

\* lines 146-159: one sample.  live is what read_temp_sensor returned when the
\* mode is live; st, sr are the random draws
Sample(live, st, sr) ==
    /\ IF SIMULATE_SENSORS
       THEN /\ temperature' = st
            /\ relay_state' = sr
            /\ tempSrc' = "sim"
            /\ readFailed' = FALSE
            /\ consecFails' = consecFails
       ELSE IF live = None
            THEN /\ temperature' = st
                 /\ relay_state' = sr
                 /\ tempSrc' = "sim"
                 /\ readFailed' = TRUE
                 /\ consecFails' = Min(consecFails + 1, MaxConsec)
            ELSE /\ temperature' = live
                 /\ relay_state' = "OFF"
                 /\ tempSrc' = "live"
                 /\ readFailed' = FALSE
                 /\ consecFails' = 0
    /\ UNCHANGED modeVars
    /\ pc' = "insert"

Acquire ==
    /\ prog = "temp_control"
    /\ pc = "acquire"
    /\ \E r \in {[live |-> read_temp_sensor(p), kind |-> Kind(p)] : p \in Payloads},
          st \in SimTemps, sr \in SimRelays :
          /\ Sample(r.live, st, sr)
          /\ readKind' = IF SIMULATE_SENSORS THEN "none" ELSE r.kind
    /\ gpio' = gpio
    /\ sampleAfterConn' = (conn = "connected")
    /\ sinks' = NoSinks
    /\ point' = NoPoint
    /\ lastPub' = NoPub
    /\ UNCHANGED <<msgVars, w1_slave, prog, brokerUp, mqttVars, netPub, early,
                   discCalls, sigVars>>

\* the loop handing the sample to a worker and going straight on to the next
\* acquire, without waiting for the insert and the publishes to return
InsertDetached ==
    /\ prog = "temp_control"
    /\ pc = "insert"
    /\ pc' = "acquire"
    /\ readKind' = "none"
    /\ UNCHANGED <<msgVars, w1_slave, gpio, prog, brokerUp, mqttVars, modeVars,
                   sampleVars, sinks, point, lastPub, netPub, early, discCalls,
                   sigVars>>

\* line 161 with lines 66-78: insert_sensor_data catches every exception
Insert ==
    /\ prog = "temp_control"
    /\ pc = "insert"
    /\ \E r \in {"ok", "fail"} : sinks' = [sinks EXCEPT !.db = r]
    /\ pc' = "pub_temp"
    /\ readKind' = "none"
    /\ UNCHANGED <<msgVars, w1_slave, gpio, prog, brokerUp, mqttVars, modeVars,
                   sampleVars, point, lastPub, netPub, early, discCalls, sigVars>>

SinkResult(o) == IF o = "sent" THEN "ok" ELSE "fail"

\* line 163
PubTemp ==
    /\ prog = "temp_control"
    /\ pc = "pub_temp"
    /\ \E o \in PubOutcomes(conn) :
          /\ publish_message(T_TEMP, "sample", o)
          /\ sinks' = [sinks EXCEPT !.busT = SinkResult(o)]
    /\ pc' = "pub_relay"
    /\ UNCHANGED <<msgVars, w1_slave, readVars, prog, brokerUp, mqttVars, modeVars,
                   sampleVars, point, netPub, discCalls, sigVars>>

\* line 164
PubRelay ==
    /\ prog = "temp_control"
    /\ pc = "pub_relay"
    /\ \E o \in PubOutcomes(conn) :
          /\ publish_message(T_RELAY, "sample", o)
          /\ sinks' = [sinks EXCEPT !.busR = SinkResult(o)]
    /\ pc' = "sleep"
    /\ UNCHANGED <<msgVars, w1_slave, readVars, prog, brokerUp, mqttVars, modeVars,
                   sampleVars, point, netPub, discCalls, sigVars>>

\* line 165, and back to `while True`
Sleep ==
    /\ prog = "temp_control"
    /\ pc = "sleep"
    /\ pc' = "acquire"
    /\ UNCHANGED <<msgVars, w1_slave, readVars, prog, brokerUp, mqttVars, modeVars,
                   sampleVars, sinks, point, lastPub, netPub, early, discCalls,
                   sigVars>>

TCMain == MqttConnect \/ RetrySleep \/ Detect \/ Acquire \/ Insert \/ PubTemp
          \/ PubRelay \/ Sleep

NetThread == (\E r \in {0, 5} : ConnAck(r)) \/ OnConnect \/ NetReconnect

(***************************************************************************)
(* beerpi.py                                                               *)
(***************************************************************************)

\* line 79: mqtt_client.connect at module level, outside any try
BPConnect ==
    /\ prog = "beerpi"
    /\ pc = "bp_connect"
    /\ IF brokerUp
       THEN conn' = "tcp" /\ pc' = "bp_setup"
       ELSE conn' = conn /\ pc' = "exc_connect"
    /\ UNCHANGED <<msgVars, w1_slave, readVars, prog, brokerUp, loopStarted, nt, rc,
                   attempt, sleeps, gaveUp, statusCalls, epoch, modeVars, sampleVars,
                   sinks, point, lastPub, netPub, early, discCalls, sigVars>>

\* lines 181-182: GPIO.setmode, GPIO.setup
BPSetup ==
    /\ prog = "beerpi"
    /\ pc = "bp_setup"
    /\ pc' = "bp_disc_temp"
    /\ UNCHANGED <<msgVars, w1_slave, readVars, prog, brokerUp, mqttVars, modeVars,
                   sampleVars, sinks, point, lastPub, netPub, early, discCalls,
                   sigVars>>

\* a direct mqtt_client.publish(topic, payload) of beerpi.py (lines 93, 107, 156,
\* 157): no retain, no try; an exception leaves the caller
client_publish(topic, payload, o) ==
    /\ lastPub' = [topic |-> topic, payload |-> payload, retain |-> FALSE,
                   disc |-> ~Up(conn), outcome |-> o, log |-> "none",
                   raised |-> (o = "raise")]
    /\ early' = Early(topic, o)

\* lines 81-108: publish_homeassistant_discovery, its two publishes in turn
Discovery(at, topic, next) ==
    /\ prog = "beerpi"
    /\ pc = at
    /\ \E o \in PubOutcomes(conn) :
          /\ client_publish(topic, "config", o)
          /\ pc' = IF o = "raise" THEN "exc_discovery" ELSE next
    /\ discCalls' = discCalls + 1
    /\ UNCHANGED <<msgVars, w1_slave, readVars, prog, brokerUp, mqttVars, modeVars,
                   sampleVars, sinks, point, netPub, sigVars>>

BPDiscTemp == Discovery("bp_disc_temp", temp_config_topic, "bp_disc_relay")

BPDiscRelay == Discovery("bp_disc_relay", relay_config_topic, "bp_register")

\* lines 189-190: signal.signal(SIGINT, cleanup), signal.signal(SIGTERM, cleanup)
BPRegister ==
    /\ prog = "beerpi"
    /\ pc = "bp_register"
    /\ handlers' = TRUE
    /\ pc' = "bp_read_temp"
    /\ UNCHANGED <<msgVars, w1_slave, readVars, prog, brokerUp, mqttVars, modeVars,
                   sampleVars, sinks, point, lastPub, netPub, early, discCalls,
                   gpioCleaned, sigAt>>

\* lines 110-136: read_temperature(), in millidegrees or None; a second line
\* without "t=" falls off the end of the function, which returns None too
read_temperature(present, p) ==
    IF ~present THEN None
    ELSE IF ~p.open THEN None
    ELSE IF ~p.ready THEN None
    ELSE IF p.hasT THEN p.milli
    ELSE None

\* line 194
BPReadTemp ==
    /\ prog = "beerpi"
    /\ pc = "bp_read_temp"
    /\ \E r \in {[t |-> read_temperature(present, p),
                   kind |-> IF present THEN Kind(p) ELSE "no_device"] :
                      present \in BOOLEAN, p \in Payloads} :
          /\ temperature' = r.t
          /\ readKind' = r.kind
    /\ gpio' = gpio
    /\ tempSrc' = IF temperature' = None THEN "none" ELSE "live"
    /\ readFailed' = (temperature' = None)
    /\ consecFails' = IF temperature' = None
                      THEN Min(consecFails + 1, MaxConsec) ELSE 0
    /\ sampleAfterConn' = (conn = "connected")
    /\ sinks' = NoSinks
    /\ point' = NoPoint
    /\ lastPub' = NoPub
    /\ pc' = "bp_read_relay"
    /\ UNCHANGED <<msgVars, w1_slave, prog, brokerUp, mqttVars, modeVars, relay_state,
                   netPub, early, discCalls, sigVars>>

\* read_relay_state reporting a failed GPIO read as OFF instead of UNKNOWN
read_relay_stateDefaultOff(g) ==
    IF g = "HIGH" THEN "ON" ELSE "OFF"

\* lines 138-149: read_relay_state(); g is what GPIO.input did
read_relay_state(g) ==
    IF g = "raise" THEN "UNKNOWN"
    ELSE IF g = "HIGH" THEN "ON" ELSE "OFF"

\* line 195
BPReadRelay ==
    /\ prog = "beerpi"
    /\ pc = "bp_read_relay"
    /\ \E g \in {"LOW", "HIGH", "raise"} :
          /\ relay_state' = read_relay_state(g)
          /\ gpio' = g
    /\ readKind' = "none"
    /\ pc' = "bp_pub_temp"
    /\ UNCHANGED <<msgVars, w1_slave, prog, brokerUp, mqttVars, modeVars, temperature,
                   tempSrc, readFailed, consecFails, sampleAfterConn, sinks,
                   point, lastPub, netPub, early, discCalls, sigVars>>

\* lines 156-157 of send_data: an exception of publish leaves send_data and main
SendPublish(at, topic, next) ==
    /\ prog = "beerpi"
    /\ pc = at
    /\ \E o \in PubOutcomes(conn) :
          /\ client_publish(topic, "sample", o)
          /\ sinks' = IF topic = MQTT_TOPIC_TEMPERATURE
                      THEN [sinks EXCEPT !.busT = SinkResult(o)]
                      ELSE [sinks EXCEPT !.busR = SinkResult(o)]
          /\ pc' = IF o = "raise" THEN "exc_tick" ELSE next
    /\ UNCHANGED <<msgVars, w1_slave, readVars, prog, brokerUp, mqttVars, modeVars,
                   sampleVars, point, netPub, discCalls, sigVars>>

BPPubTemp == SendPublish("bp_pub_temp", MQTT_TOPIC_TEMPERATURE, "bp_pub_relay")

BPPubRelay == SendPublish("bp_pub_relay", MQTT_TOPIC_RELAY, "bp_influx")

\* the point with the relay field testing for OFF instead of ON: UNKNOWN gives 1
MakePointNotOff(t, r) ==
    [written |-> TRUE,
     temperature |-> IF t /= None THEN t ELSE 0,
     relay |-> IF r = "OFF" THEN 0 ELSE 1]

\* lines 161-165: the point of send_data
MakePoint(t, r) ==
    [written |-> TRUE,
     temperature |-> IF t /= None THEN t ELSE 0,
     relay |-> IF r = "ON" THEN 1 ELSE 0]

\* lines 166-170: write_api.write inside try/except
BPInflux ==
    /\ prog = "beerpi"
    /\ pc = "bp_influx"
    /\ point' = MakePoint(temperature, relay_state)
    /\ \E r \in {"ok", "fail"} : sinks' = [sinks EXCEPT !.ts = r]
    /\ pc' = "bp_sleep"
    /\ UNCHANGED <<msgVars, w1_slave, readVars, prog, brokerUp, mqttVars, modeVars,
                   sampleVars, lastPub, netPub, early, discCalls, sigVars>>

\* line 198, and back to `while True`
BPSleep ==
    /\ prog = "beerpi"
    /\ pc = "bp_sleep"
    /\ pc' = "bp_read_temp"
    /\ UNCHANGED <<msgVars, w1_slave, readVars, prog, brokerUp, mqttVars, modeVars,
                   sampleVars, sinks, point, lastPub, netPub, early, discCalls,
                   sigVars>>

BPMain == BPConnect \/ BPSetup \/ BPDiscTemp \/ BPDiscRelay \/ BPRegister
          \/ BPReadTemp \/ BPReadRelay \/ BPPubTemp \/ BPPubRelay \/ BPInflux
          \/ BPSleep

(***************************************************************************)
(* Termination signals                                                     *)
(***************************************************************************)

\* the handler that lets send_data finish before cleanup() starts: a signal that
\* arrives inside a tick first completes the tick's remaining sink writes
SignalFinishingDispatch ==
    /\ prog = "beerpi"
    /\ Running
    /\ pc \notin CleanupPcs
    /\ IF handlers
       THEN pc' = "cl_gpio" /\ sigAt' = pc
       ELSE pc' = "killed" /\ sigAt' = pc
    /\ IF handlers /\ pc \in {"bp_read_relay", "bp_pub_temp", "bp_pub_relay", "bp_influx"}
       THEN /\ sinks' = [db |-> "none", busT |-> "ok", busR |-> "ok", ts |-> "ok"]
            /\ point' = MakePoint(temperature, relay_state)
       ELSE UNCHANGED <<sinks, point>>
    /\ UNCHANGED <<msgVars, w1_slave, readVars, prog, brokerUp, mqttVars, modeVars,
                   sampleVars, lastPub, netPub, early, discCalls, handlers,
                   gpioCleaned>>

\* SIGINT or SIGTERM arrives at beerpi.py.  With the handlers of lines 189-190
\* registered, cleanup() starts on the main thread wherever it is; before that
\* the default disposition ends the process.
Signal ==
    /\ prog = "beerpi"
    /\ Running
    /\ pc \notin CleanupPcs
    /\ IF handlers
       THEN pc' = "cl_gpio" /\ sigAt' = pc
       ELSE pc' = "killed" /\ sigAt' = pc
    /\ UNCHANGED <<msgVars, w1_slave, readVars, prog, brokerUp, mqttVars, modeVars,
                   sampleVars, sinks, point, lastPub, netPub, early, discCalls,
                   handlers, gpioCleaned>>

\* cleanup() without its mqtt_client.disconnect(): GPIO.cleanup(), then sys.exit(0)
CleanupGpioThenExit ==
    /\ pc = "cl_gpio"
    /\ gpioCleaned' = TRUE
    /\ pc' = "cl_exit"
    /\ UNCHANGED <<msgVars, w1_slave, readVars, prog, brokerUp, mqttVars, modeVars,
                   sampleVars, sinks, point, lastPub, netPub, early, discCalls,
                   handlers, sigAt>>

\* line 175 of cleanup: GPIO.cleanup()
CleanupGpio ==
    /\ pc = "cl_gpio"
    /\ gpioCleaned' = TRUE
    /\ pc' = "cl_disconnect"
    /\ UNCHANGED <<msgVars, w1_slave, readVars, prog, brokerUp, mqttVars, modeVars,
                   sampleVars, sinks, point, lastPub, netPub, early, discCalls,
                   handlers, sigAt>>

\* line 176 of cleanup: mqtt_client.disconnect()
CleanupDisconnect ==
    /\ pc = "cl_disconnect"
    /\ conn' = "closed"
    /\ pc' = "cl_exit"
    /\ UNCHANGED <<msgVars, w1_slave, readVars, prog, brokerUp, loopStarted, nt, rc,
                   attempt, sleeps, gaveUp, statusCalls, epoch, modeVars, sampleVars,
                   sinks, point, lastPub, netPub, early, discCalls, sigVars>>

\* line 177 of cleanup: sys.exit(0)
CleanupExit ==
    /\ pc = "cl_exit"
    /\ pc' = "exit0"
    /\ UNCHANGED <<msgVars, w1_slave, readVars, prog, brokerUp, mqttVars, modeVars,
                   sampleVars, sinks, point, lastPub, netPub, early, discCalls,
                   sigVars>>

Cleanup == CleanupGpio \/ CleanupDisconnect \/ CleanupExit

(***************************************************************************)
(* The broker, seen from the process                                       *)
(***************************************************************************)
BrokerDown ==
    /\ Running
    /\ brokerUp
    /\ brokerUp' = FALSE
    /\ conn' = IF Up(conn) THEN "lost" ELSE conn
    /\ UNCHANGED <<msgVars, w1_slave, readVars, prog, pc, loopStarted, nt, rc, attempt,
                   sleeps, gaveUp, statusCalls, epoch, modeVars, sampleVars, sinks,
                   point, lastPub, netPub, early, discCalls, sigVars>>

BrokerBack ==
    /\ Running
    /\ ~brokerUp
    /\ brokerUp' = TRUE
    /\ UNCHANGED <<msgVars, w1_slave, readVars, prog, pc, mqttVars, modeVars,
                   sampleVars, sinks, point, lastPub, netPub, early, discCalls,
                   sigVars>>

Broker == BrokerDown \/ BrokerBack

Next == TCMain \/ NetThread \/ BPMain \/ Signal \/ Cleanup \/ Broker

Spec == Init /\ [][Next]_vars

\* the main thread and the network thread keep running while the process lives
FairSpec == Spec /\ WF_vars(TCMain \/ BPMain \/ Cleanup) /\ WF_vars(NetThread)

\* temp_control.py with its network thread receiving messages, the broker staying
\* as it was when the process started
MsgNext == TCMain \/ (\E r \in {0, 5} : ConnAck(r)) \/ OnConnect \/ OnMessage

MsgInit == Init /\ prog = "temp_control"

MsgSpec == MsgInit /\ [][MsgNext]_vars

(***************************************************************************)
(* The text of w1_slave and its parsing (temp_control.py 96-118, beerpi.py  *)
(* 110-136).  A line is a sequence of characters; a file is whether it can  *)
(* be opened and the lines readlines() returns.                             *)
(***************************************************************************)
DigitChars == <<"0", "1", "2", "3", "4", "5", "6", "7", "8", "9">>
WhiteSpace == {" ", "\n"}

\* str.strip()
RECURSIVE LStrip(_)
LStrip(s) ==
    IF s /= <<>> /\ Head(s) \in WhiteSpace THEN LStrip(Tail(s)) ELSE s

RECURSIVE RStrip(_)
RStrip(s) ==
    IF s /= <<>> /\ s[Len(s)] \in WhiteSpace
    THEN RStrip(SubSeq(s, 1, Len(s) - 1)) ELSE s

Strip(s) == RStrip(LStrip(s))

\* s[-3:]
Last3(s) == IF Len(s) <= 3 THEN s ELSE SubSeq(s, Len(s) - 2, Len(s))

\* s.find("t="): the lowest 0-based index at which "t=" starts, or -1
Find(s) ==
    LET hits == {i \in 1..(Len(s) - 1) : s[i] = "t" /\ s[i + 1] = "="}
    IN  IF hits = {} THEN -1
        ELSE (CHOOSE i \in hits : \A j \in hits : i <= j) - 1

\* s[pos:] for a 0-based pos
From(s, pos) == SubSeq(s, pos + 1, Len(s))

\* the value of a string of decimal digits
DigitVal(c) == (CHOOSE d \in 1..Len(DigitChars) : DigitChars[d] = c) - 1

RECURSIVE NatVal(_)
NatVal(s) ==
    IF s = <<>> THEN 0
    ELSE NatVal(SubSeq(s, 1, Len(s) - 1)) * Len(DigitChars) + DigitVal(s[Len(s)])

IsDigits(s) ==
    /\ s /= <<>>
    /\ \A i \in 1..Len(s) : \E d \in 1..Len(DigitChars) : s[i] = DigitChars[d]

\* float(s) for strings without ".", "e", "_" and letters of inf/nan: white
\* space is stripped, one sign is allowed, what is left must be digits;
\* anything else raises ValueError
Float(s) ==
    LET b == Strip(s)
        signed == b /= <<>> /\ Head(b) \in {"-", "+"}
        d == IF signed THEN Tail(b) ELSE b
    IN  IF ~IsDigits(d) THEN [raised |-> TRUE, val |-> 0]
        ELSE [raised |-> FALSE,
              val |-> IF signed /\ Head(b) = "-" THEN 0 - NatVal(d) ELSE NatVal(d)]

\* read_temp_sensor slicing the second line one character early (equals_pos+1)
read_temp_sensor_linesOffByOne(f) ==
    IF ~f.open THEN [t |-> None, kind |-> "io_error"]
    ELSE IF Len(f.lines) < 1 THEN [t |-> None, kind |-> "io_error"]
    ELSE IF Last3(Strip(f.lines[1])) /= <<"Y", "E", "S">>
         THEN [t |-> None, kind |-> "not_ready"]
    ELSE IF Len(f.lines) < 2 THEN [t |-> None, kind |-> "io_error"]
    ELSE LET equals_pos == Find(f.lines[2])
         IN  IF equals_pos /= -1
             THEN LET temp_string == From(f.lines[2], equals_pos + 1)
                      v == Float(temp_string)
                  IN  IF v.raised THEN [t |-> None, kind |-> "io_error"]
                      ELSE [t |-> v.val, kind |-> "ok"]
             ELSE [t |-> None, kind |-> "no_t"]

\* temp_control.py lines 96-118 on the text of the file: the temperature in
\* millidegrees (the code returns float(temp_string) / 1000.0) or None, and the
\* branch taken.  An IndexError or ValueError is caught by line 116.
read_temp_sensor_lines(f) ==
    IF ~f.open THEN [t |-> None, kind |-> "io_error"]
    ELSE IF Len(f.lines) < 1 THEN [t |-> None, kind |-> "io_error"]
    ELSE IF Last3(Strip(f.lines[1])) /= <<"Y", "E", "S">>
         THEN [t |-> None, kind |-> "not_ready"]
    ELSE IF Len(f.lines) < 2 THEN [t |-> None, kind |-> "io_error"]
    ELSE LET equals_pos == Find(f.lines[2])
         IN  IF equals_pos /= -1
             THEN LET temp_string == From(f.lines[2], equals_pos + 2)
                      v == Float(temp_string)
                  IN  IF v.raised THEN [t |-> None, kind |-> "io_error"]
                      ELSE [t |-> v.val, kind |-> "ok"]
             ELSE [t |-> None, kind |-> "no_t"]

\* beerpi.py lines 110-136 on the text of the file; present says whether glob
\* found a device.  Without "t=" the function falls off its end: None.
read_temperature_lines(present, f) ==
    IF ~present THEN [t |-> None, kind |-> "no_device"]
    ELSE IF ~f.open THEN [t |-> None, kind |-> "io_error"]
    ELSE IF Len(f.lines) < 1 THEN [t |-> None, kind |-> "io_error"]
    ELSE IF Last3(Strip(f.lines[1])) /= <<"Y", "E", "S">>
         THEN [t |-> None, kind |-> "not_ready"]
    ELSE IF Len(f.lines) < 2 THEN [t |-> None, kind |-> "io_error"]
    ELSE LET equals_pos == Find(f.lines[2])
             v == Float(From(f.lines[2], equals_pos + 2))
         IN  IF equals_pos = -1 THEN [t |-> None, kind |-> "no_t"]
             ELSE IF v.raised THEN [t |-> None, kind |-> "io_error"]
             ELSE [t |-> v.val, kind |-> "ok"]

\* what the DS18B20 driver writes: decimal text of an integer
RECURSIVE DecNat(_)
DecNat(n) ==
    IF n < Len(DigitChars) THEN <<DigitChars[n + 1]>>
    ELSE DecNat(n \div Len(DigitChars)) \o <<DigitChars[(n % Len(DigitChars)) + 1]>>

Dec(m) == IF m < 0 THEN <<"-">> \o DecNat(0 - m) ELSE DecNat(m)

\* the files handed to the parser: millidegree values over the sensor's range
\* and beyond, first lines with and without the ready marker, second lines with
\* a value, without "t=", with an empty and with a damaged value
Millis == {-55000, -1500, -62, 0, 5, 21437, 85000, 125000}
ReadyLines == {<<"c", "r", "c", "=", "d", "a", " ", "Y", "E", "S", "\n">>,
               <<"Y", "E", "S">>}
NotReadyLines == {<<"c", "r", "c", "=", "d", "a", " ", "N", "O", "\n">>,
                  <<"\n">>,
                  <<"Y", "E", "S", " ", "x", "\n">>}
Prefixes == {<<>>, <<"4", "b", " ", "0", "1", " ">>}
ValueLines ==
    {pre \o <<"t", "=">> \o Dec(m) \o <<"\n">> : pre \in Prefixes, m \in Millis}
NoValueLines == {pre \o <<"\n">> : pre \in Prefixes}
DamagedLines == {pre \o <<"t", "=">> \o tail : pre \in Prefixes,
                     tail \in {<<"\n">>, <<"1", "2", "x", "\n">>, <<"-", "\n">>}}
W1Files ==
    {[open |-> FALSE, lines |-> <<>>], [open |-> TRUE, lines |-> <<>>]}
    \cup {[open |-> TRUE, lines |-> <<l1>>] : l1 \in ReadyLines}
    \cup {[open |-> TRUE, lines |-> <<l1, l2>>] :
             l1 \in ReadyLines \cup NotReadyLines,
             l2 \in ValueLines \cup NoValueLines \cup DamagedLines}

\* the driver rewrites the file
ParseLoad ==
    /\ w1_slave' \in W1Files
    /\ readKind' = "none"
    /\ UNCHANGED <<msgVars, gpio, prog, pc, brokerUp, mqttVars, modeVars, sampleVars,
                   sinks, point, lastPub, netPub, early, discCalls, sigVars>>

\* the program reads it: read_temp_sensor (temp_control.py) or read_temperature
\* (beerpi.py)
ParseRead ==
    /\ readKind = "none"
    /\ LET r == IF prog = "temp_control" THEN read_temp_sensor_lines(w1_slave)
                ELSE read_temperature_lines(TRUE, w1_slave)
       IN  temperature' = r.t /\ readKind' = r.kind
    /\ UNCHANGED <<msgVars, w1_slave, gpio, prog, pc, brokerUp, mqttVars, modeVars,
                   relay_state, tempSrc, readFailed, consecFails, sampleAfterConn,
                   sinks, point, lastPub, netPub, early, discCalls, sigVars>>

ParseNext == ParseLoad \/ ParseRead

ParseSpec == Init /\ [][ParseNext]_vars

(***************************************************************************)
(* Properties                                                              *)
(***************************************************************************)
TC == prog = "temp_control"
BP == prog = "beerpi"
Attempted(x) == x /= "none"
ByPublishMessage == lastPub.topic \in {T_TEMP, T_RELAY}

\* C1 (as the spec states it): after 3 consecutive failed live reads the
\* acquisition mode of the polling loop is SIMULATED.
C1_Original ==
    (TC /\ consecFails >= 3) =>
        (SIMULATE_SENSORS /\ data_mode = "Simulated Data")

\* C1 (amended): no number of consecutive failed live reads changes the mode of
\* temp_control: while failures are being counted, also after 3 of them, the mode
\* is still LIVE (SIMULATE_SENSORS False, data_mode "Live Data"); a failed read
\* only substitutes simulated values for its own tick.
C1_FailuresKeepModeLive ==
    TC => /\ (consecFails >= 1 => (~SIMULATE_SENSORS /\ data_mode = "Live Data"))
          /\ (readFailed => (~SIMULATE_SENSORS /\ tempSrc = "sim"))

\* C1, its case: three consecutive live reads failed and the mode is still live
C1_Witness ==
    TC /\ consecFails >= 3 /\ readFailed /\ pc = "insert" /\ ~SIMULATE_SENSORS

\* C2 (as the spec states it): in a tick whose live read failed no sink receives
\* a write.
C2_Original ==
    readFailed => (sinks = NoSinks /\ ~point.written)

\* C2 (amended): a failed live read never suppresses the tick's writes.
\* temp_control substitutes a simulated sample and attempts the relational insert
\* and both bus publishes with it; beerpi dispatches the sample with temperature
\* None like any other: both bus publishes, then the time-series point with
\* temperature 0.
C2_FailedReadStillDispatched ==
    /\ (TC /\ readFailed) =>
          /\ temperature \in SimTemps /\ relay_state \in SimRelays
          /\ pc \in {"insert", "pub_temp", "pub_relay", "sleep", "acquire"}
          /\ pc \in {"pub_temp", "pub_relay", "sleep", "acquire"} => Attempted(sinks.db)
          /\ pc \in {"pub_relay", "sleep", "acquire"} => Attempted(sinks.busT)
          /\ pc \in {"sleep", "acquire"} => Attempted(sinks.busR)
    /\ (BP /\ readFailed) =>
          /\ temperature = None
          /\ pc \in {"bp_pub_relay", "bp_influx", "bp_sleep", "bp_read_temp"}
                => Attempted(sinks.busT)
          /\ pc \in {"bp_influx", "bp_sleep", "bp_read_temp"} => Attempted(sinks.busR)
          /\ pc \in {"bp_sleep", "bp_read_temp"} =>
                (Attempted(sinks.ts) /\ point.written /\ point.temperature = 0)

\* C2, its case: a tick of temp_control whose live read failed wrote to every sink
C2_Witness ==
    TC /\ readFailed /\ pc = "sleep" /\ sinks.db = "ok" /\ sinks.busT = "ok"
       /\ sinks.busR = "ok"

\* C3: when a tick is over, whichever sinks failed, every sink of the program
\* was attempted: the relational insert and both bus publishes in temp_control,
\* both bus publishes and the time-series write in beerpi.
C3_Original ==
    /\ (TC /\ pc = "sleep") =>
          (Attempted(sinks.db) /\ Attempted(sinks.busT) /\ Attempted(sinks.busR))
    /\ (BP /\ pc \in {"bp_sleep", "exc_tick"}) =>
          (Attempted(sinks.busT) /\ Attempted(sinks.busR) /\ Attempted(sinks.ts))

\* C4: no failure of a component during a tick ends the polling loop: the main
\* thread never leaves the loop by an exception.
C4_Original == pc /= "exc_tick"

\* C5: a broker that is unreachable at start-up never ends the process, and
\* once the connect attempts are exhausted every tick still attempts the
\* non-bus sink.
C5_Original ==
    /\ pc /= "exc_connect"
    /\ (TC /\ gaveUp /\ pc \in {"pub_temp", "pub_relay", "sleep"}) =>
          Attempted(sinks.db)

\* C6 (as the spec states it): when all start-up attempts failed and the broker
\* is reachable afterwards, the session eventually reaches CONNECTED (unless the
\* broker goes away again).
C6_Original == (gaveUp /\ brokerUp) ~> (conn = "connected" \/ ~brokerUp)

\* C6 (amended): when all start-up connect attempts failed, no further attempt
\* is ever made: the network thread is never started, the session stays without
\* a connection for the life of the process, whatever the broker does, and no
\* publish of a sample reaches the bus.
C6_NoReconnectAfterGiveUp ==
    gaveUp =>
        /\ conn = "none" /\ ~loopStarted /\ nt = "idle" /\ epoch = 0
        /\ lastPub.outcome /= "sent"
        /\ sinks.busT /= "ok" /\ sinks.busR /= "ok"

\* C6, its case: all attempts failed, the broker is reachable again, and a tick
\* ran with both publishes returning the no-connection code
C6_Witness ==
    gaveUp /\ brokerUp /\ pc = "sleep" /\ lastPub.outcome = "noconn"
       /\ sinks.busT = "fail" /\ sinks.busR = "fail"

\* C7 (as the spec states it): once on_connect has run for a connection epoch,
\* the status was published retained once and the two discovery registrations
\* were published.
C7_Original ==
    (epoch >= 1 /\ nt = "idle" /\ conn = "connected") =>
        (statusCalls = 1 /\ netPub.retain /\ discCalls = 2)

\* C7 (amended): on every successful connection or reconnection of
\* temp_control's session (CONNACK with rc 0) on_connect publishes the "online"
\* status retained exactly once for that epoch and no discovery registration; a
\* refused CONNACK publishes nothing.  beerpi publishes its two discovery
\* registrations once, at the start of main, not retained, and never a status.
C7_StatusOncePerEpoch ==
    /\ TC =>
          /\ discCalls = 0
          /\ statusCalls <= 1
          /\ (nt = "on_connect" /\ rc = 0) => statusCalls = 0
          /\ (epoch >= 1 /\ nt /= "on_connect") => statusCalls = 1
          /\ epoch = 0 => statusCalls = 0
          /\ statusCalls = 1 =>
                (netPub.topic = T_STATUS /\ netPub.payload = "online" /\ netPub.retain)
          /\ statusCalls = 0 => netPub = NoPub
    /\ BP =>
          /\ statusCalls = 0 /\ netPub = NoPub /\ epoch = 0
          /\ discCalls <= 2
          /\ pc \in {"bp_connect", "bp_setup", "bp_disc_temp"} => discCalls = 0
          /\ pc = "bp_disc_relay" => discCalls = 1
          /\ pc \in {"bp_register", "bp_read_temp", "bp_read_relay", "bp_pub_temp",
                     "bp_pub_relay", "bp_influx", "bp_sleep"} => discCalls = 2
          /\ lastPub.topic \in DiscTopics => ~lastPub.retain

\* C7, its case: on_connect has run for a reconnection (a second epoch)
C7_Witness ==
    TC /\ epoch >= 2 /\ conn = "connected" /\ nt = "idle" /\ statusCalls = 1
       /\ netPub.outcome = "sent"

\* C8: in every connection epoch, no data publish of a sample produced after
\* the epoch's CONNECTED transition goes out before the epoch's status publish.
C8_Original == ~early

\* C9 (as the spec states it): a publish_message call made while the session is
\* disconnected sends nothing, logs the failure and does not raise.
C9_Original ==
    (ByPublishMessage /\ lastPub.disc) =>
        (lastPub.outcome /= "sent" /\ lastPub.log = "error" /\ ~lastPub.raised)

\* C9 (amended): a publish_message call made while the session is disconnected
\* sends nothing to the bus and returns to the caller without raising; it counts
\* nothing, and it logs an error only when the client raises: when the client
\* returns its no-connection code the call is logged as published.
C9_DisconnectedPublish ==
    (ByPublishMessage /\ lastPub.disc) =>
        /\ lastPub.outcome \in {"noconn", "raise"}
        /\ ~lastPub.raised
        /\ (lastPub.log = "error") = (lastPub.outcome = "raise")
        /\ (lastPub.log = "info") = (lastPub.outcome = "noconn")
        /\ pc \in {"pub_relay", "sleep", "acquire"}
        /\ (lastPub.topic = T_TEMP => sinks.busT = "fail")
        /\ (lastPub.topic = T_RELAY => sinks.busR = "fail")

\* C9, its case: publish_message returned from a call made with no connection
C9_Witness ==
    /\ lastPub.topic = T_TEMP /\ lastPub.disc /\ lastPub.outcome = "noconn"
    /\ lastPub.log = "info" /\ pc = "pub_relay"

\* C10 (as the spec states it): the broker session is never closed without the
\* "offline" status having been published just before.
C10_Original ==
    conn = "closed" => (lastPub.payload = "offline" /\ lastPub.outcome = "sent")

\* C10 (amended): on a termination signal delivered after beerpi registered its
\* handlers the process performs, in this order, GPIO.cleanup(), the close of the
\* broker session and the exit with status 0, and never returns to the loop; no
\* "offline" status is published at any point.
C10_CleanupOrder ==
    /\ lastPub.payload /= "offline" /\ netPub.payload /= "offline"
    /\ pc = "cl_gpio" => (~gpioCleaned /\ conn /= "closed")
    /\ pc = "cl_disconnect" => (gpioCleaned /\ conn /= "closed")
    /\ pc = "cl_exit" => (gpioCleaned /\ conn = "closed")
    /\ pc = "exit0" => (gpioCleaned /\ conn = "closed" /\ handlers)
    /\ conn = "closed" => gpioCleaned
    /\ gpioCleaned => (BP /\ handlers /\ sigAt /= "none")
    /\ (handlers /\ sigAt /= "none") => pc \in CleanupPcs \cup {"exit0"}
    /\ (~handlers /\ sigAt /= "none") => pc = "killed"

\* C10, its case: a signal arrived inside send_data and the process exited
C10_Witness ==
    BP /\ pc = "exit0" /\ gpioCleaned /\ conn = "closed"
       /\ sigAt \in {"bp_pub_relay", "bp_influx"}

\* the positions of beerpi's main thread inside a tick: after the sensor read and
\* before the time-series write has returned
InTick == {"bp_read_relay", "bp_pub_temp", "bp_pub_relay", "bp_influx"}

\* C11 (as the spec states it): when the termination signal arrives inside a
\* tick, the dispatch of that tick completes on all sinks before the process
\* exits; no tick is left with only some of its sink writes done.
C11_Original ==
    (BP /\ pc = "exit0" /\ sigAt \in InTick) =>
        (Attempted(sinks.busT) /\ Attempted(sinks.busR) /\ Attempted(sinks.ts))

\* C11 (amended): a termination signal that arrives inside a tick of beerpi
\* abandons the tick where it is: cleanup() runs at once and the sink writes the
\* tick had not made yet are never made.  A signal before the temperature
\* publish leaves no sink written, one between the two publishes leaves the
\* temperature publish alone, one before the time-series write leaves both
\* publishes without a point.
C11_SignalAbandonsTick ==
    (BP /\ handlers /\ sigAt /= "none") =>
        /\ sigAt \in {"bp_read_relay", "bp_pub_temp"} =>
              (sinks = NoSinks /\ ~point.written)
        /\ sigAt = "bp_pub_relay" =>
              /\ Attempted(sinks.busT)
              /\ sinks.busR = "none" /\ sinks.ts = "none" /\ ~point.written
        /\ sigAt = "bp_influx" =>
              /\ Attempted(sinks.busT) /\ Attempted(sinks.busR)
              /\ sinks.ts = "none" /\ ~point.written
        /\ sigAt = "bp_sleep" =>
              (Attempted(sinks.busT) /\ Attempted(sinks.busR) /\ Attempted(sinks.ts))

\* C11, its case: the signal arrived between the two publishes and the process
\* exited with the temperature published, the relay state and the point not
C11_Witness ==
    BP /\ pc = "exit0" /\ sigAt = "bp_pub_relay" /\ sinks.busT = "ok"
       /\ sinks.busR = "none" /\ sinks.ts = "none"

\* the positions of temp_control's main thread at which the sample of the tick
\* exists: from the hand-over to insert_sensor_data to the sleep
TickPcs == {"insert", "pub_temp", "pub_relay", "sleep"}

\* C12 (as the spec states it): mode is never mixed within a sample: a sample
\* dispatched while data_mode is "Live Data" carries values of the live path,
\* and synthesized values are dispatched only while data_mode is "Simulated
\* Data".
C12_Original ==
    (TC /\ pc \in TickPcs) =>
        /\ data_mode = "Live Data" => tempSrc = "live"
        /\ tempSrc = "sim" => data_mode = "Simulated Data"

\* C12 (amended): in temp_control data_mode follows the start-up probe, not the
\* sample.  While it is "Live Data" a sample carries the device's temperature
\* with the relay state fixed to OFF when the read succeeded, and a synthesized
\* temperature and relay state when the read failed; while it is "Simulated
\* Data" every sample is synthesized.
C12_LiveModeCarriesFallbackSamples ==
    (TC /\ pc \in TickPcs) =>
        /\ data_mode = IF SIMULATE_SENSORS THEN "Simulated Data" ELSE "Live Data"
        /\ SIMULATE_SENSORS =>
              (tempSrc = "sim" /\ ~readFailed /\ temperature \in SimTemps
                  /\ relay_state \in SimRelays)
        /\ (~SIMULATE_SENSORS /\ ~readFailed) =>
              (tempSrc = "live" /\ temperature \in MilliVals /\ relay_state = "OFF")
        /\ (~SIMULATE_SENSORS /\ readFailed) =>
              (tempSrc = "sim" /\ temperature \in SimTemps
                  /\ relay_state \in SimRelays)

\* C12, its case: a synthesized sample with relay ON went out on the bus while
\* data_mode said "Live Data"
C12_Witness ==
    TC /\ pc = "sleep" /\ data_mode = "Live Data" /\ tempSrc = "sim"
       /\ relay_state = "ON" /\ sinks.busT = "ok" /\ sinks.busR = "ok"

\* C13 (as the spec states it): a payload whose first line does not end with
\* YES is rejected as a transient not-ready read: the read returns no
\* temperature, the tick does not fall back to simulated data, the mode is left
\* unchanged and the read is retried on the next tick.
C13_Original ==
    readKind = "not_ready" =>
        /\ readFailed
        /\ tempSrc /= "sim"
        /\ TC => (~SIMULATE_SENSORS /\ data_mode = "Live Data")

\* C13 (amended): a payload whose first line does not end with YES makes the
\* read return no temperature and leaves the mode unchanged, and the next tick
\* reads the device again; temp_control treats it like every failed read and
\* substitutes simulated values for that tick, beerpi carries on with the
\* temperature None and substitutes nothing.
C13_NotReadyIsAFailedRead ==
    /\ (TC /\ readKind = "not_ready") =>
          /\ pc = "insert" /\ readFailed /\ consecFails >= 1
          /\ tempSrc = "sim" /\ temperature \in SimTemps /\ relay_state \in SimRelays
          /\ ~SIMULATE_SENSORS /\ data_mode = "Live Data"
    /\ (BP /\ readKind = "not_ready") =>
          (readFailed /\ consecFails >= 1 /\ tempSrc = "none" /\ temperature = None)
    /\ (TC /\ pc = "insert" /\ ~SIMULATE_SENSORS) => readKind /= "none"
    /\ (BP /\ pc = "bp_read_relay") => readKind /= "none"

\* C13, its case: the second not-ready read in a row, taken by temp_control in
\* live mode
C13_Witness ==
    TC /\ pc = "insert" /\ readKind = "not_ready" /\ consecFails = 2
       /\ data_mode = "Live Data" /\ tempSrc = "sim"

\* C14: when the relay input read fails the relay state of the sample is UNKNOWN
\* and the failure does not abort the cycle: the tick goes on into send_data
\* with the temperature it read, which is published and written to the point; a
\* tick cut short after a failed relay read was cut short by a raising publish.
\* When the read succeeds, HIGH gives ON and LOW gives OFF.
C14_RelayFailureKeepsTick ==
    BP =>
        /\ gpio = "HIGH" => relay_state = "ON"
        /\ gpio = "LOW" => relay_state = "OFF"
        /\ gpio = "raise" <=> relay_state = "UNKNOWN"
        /\ gpio = "raise" =>
              /\ pc \in {"bp_pub_relay", "bp_influx", "bp_sleep", "bp_read_temp"}
                    => Attempted(sinks.busT)
              /\ pc \in {"bp_influx", "bp_sleep", "bp_read_temp"}
                    => Attempted(sinks.busR)
              /\ pc \in {"bp_sleep", "bp_read_temp"} =>
                    /\ Attempted(sinks.ts) /\ point.written /\ point.relay = 0
                    /\ point.temperature = IF temperature /= None
                                           THEN temperature ELSE 0
              /\ pc = "exc_tick" => lastPub.raised

\* C14, its case: a tick whose relay read failed and whose temperature reached
\* the bus and the point
C14_Witness ==
    BP /\ gpio = "raise" /\ relay_state = "UNKNOWN" /\ pc = "bp_sleep"
       /\ temperature \in MilliVals /\ sinks.busT = "ok" /\ sinks.ts = "ok"
       /\ point.temperature = temperature

\* a step of the main thread that starts a tick: the acquire of temp_control's
\* loop, read_temperature of beerpi's
TickStart ==
    \/ pc = "acquire" /\ pc' = "insert"
    \/ pc = "bp_read_temp" /\ pc' = "bp_read_relay"

\* every sink write of the tick the program makes has returned
DispatchReturned ==
    IF TC
    THEN Attempted(sinks.db) /\ Attempted(sinks.busT) /\ Attempted(sinks.busR)
    ELSE Attempted(sinks.busT) /\ Attempted(sinks.busR) /\ Attempted(sinks.ts)

\* C15: ticks never overlap: the acquire of a tick starts only when there was no
\* tick before it or when every sink write of the previous tick has returned.
C15_TicksDoNotOverlap ==
    [][TickStart => (relay_state = "unset" \/ DispatchReturned)]_vars

\* C15, its case: beerpi has started its second tick in a row, after the first
\* one was dispatched
C15_Witness ==
    BP /\ pc = "bp_read_relay" /\ consecFails = 2 /\ sinks = NoSinks
       /\ relay_state /= "unset"

\* C16 (as the spec states it): the acquisition mode and the broker connection
\* state are written only by the polling loop's thread; no step of another
\* thread writes shared state of the pipeline (mode, connection state, the
\* module globals of mqtt_handler).
C16_Original ==
    [][(modeVars' /= modeVars \/ conn' /= conn \/ msgVars' /= msgVars)
          => pc' /= pc]_vars

\* C16 (amended): the acquisition mode is written by the main thread only, once,
\* by the start-up probe.  The connection state is written by the main thread's
\* connect and by the network thread of loop_start(), which takes the session
\* to connected or refused on the CONNACK; on_message runs on that thread and
\* writes the globals current_temperature and current_relay_state, which the
\* main thread never writes.
C16_WritersByThread ==
    [][/\ modeVars' /= modeVars => (pc = "detect" /\ pc' = "acquire")
       /\ conn' /= conn =>
             \/ pc = "mqtt_connect" /\ pc' = "detect" /\ conn' = "tcp"
             \/ pc' = pc /\ loopStarted /\ nt = "idle" /\ nt' = "on_connect"
       /\ msgVars' /= msgVars =>
             (pc' = pc /\ loopStarted /\ nt = "idle" /\ conn = "connected")]_vars

\* C16, its case: while the main thread is inside a tick the network thread has
\* connected the session and on_message has written both globals
C16_Witness ==
    TC /\ pc \in TickPcs /\ conn = "connected" /\ data_mode = "Live Data"
       /\ current_temperature = "21.44" /\ current_relay_state = "ON"

\* C17: for every file whose first line ends with the ready marker and whose
\* second line carries t=<integer millidegrees>, negative values included, the
\* read returns exactly that value (in millidegrees; the code returns it divided
\* by 1000); with the ready marker and no "t=" it returns no temperature.
C17_ParseReturnsEncodedValue ==
    readKind /= "none" =>
        /\ \A l1 \in ReadyLines, pre \in Prefixes, m \in Millis :
              w1_slave = [open |-> TRUE,
                          lines |-> <<l1, pre \o <<"t", "=">> \o Dec(m) \o <<"\n">>>>]
                 => (temperature = m /\ readKind = "ok")
        /\ \A l1 \in ReadyLines, l2 \in NoValueLines :
              w1_slave = [open |-> TRUE, lines |-> <<l1, l2>>]
                 => (temperature = None /\ readKind = "no_t")

\* C17, its case: a ready file with a negative value after a prefix was read
C17_Witness ==
    /\ readKind = "ok" /\ temperature < 0 /\ temperature /= None
    /\ Len(w1_slave.lines[2]) > Len(Dec(temperature)) + 3
    /\ Find(w1_slave.lines[2]) > 0

\* C18: every sample of the simulated path, the values substituted for a failed
\* live read included, has a temperature within [18.00, 25.00] with two decimal
\* places and a relay state that is ON or OFF.
C18_SimulatedSampleInRange ==
    (TC /\ pc \in TickPcs /\ (SIMULATE_SENSORS \/ readFailed)) =>
        /\ tempSrc = "sim"
        /\ temperature /= None
        /\ SimLow <= temperature /\ temperature <= SimHigh
        /\ temperature % 10 = 0
        /\ relay_state \in {"ON", "OFF"}

\* C18, its case: the value substituted for a failed live read is the upper end
\* of the range and has been published
C18_Witness ==
    TC /\ pc = "pub_relay" /\ ~SIMULATE_SENSORS /\ readFailed
       /\ temperature = SimHigh /\ relay_state = "OFF" /\ sinks.busT = "ok"

\* the positions of the main thread inside the start-up connect loop
RetryLoopPcs == {"mqtt_connect", "retry_sleep"}

\* C19: the start-up connect loop makes at most max_retries attempts, stops at
\* the first success, starts the network loop exactly once if and only if an
\* attempt succeeded, and sleeps only between attempts: k failures followed by
\* a success make k sleeps, max_retries failures make max_retries - 1 sleeps.
\* (attempt is the loop index: the attempts made so far are attempt + 1 once
\* the connect of the iteration has run.)
C19_RetryLoopCounts ==
    TC =>
        /\ attempt <= max_retries - 1
        /\ sleeps = attempt
        /\ pc \in RetryLoopPcs => (~loopStarted /\ ~gaveUp /\ conn = "none")
        /\ pc = "retry_sleep" => attempt < max_retries - 1
        /\ pc \notin RetryLoopPcs =>
              /\ loopStarted /= gaveUp
              /\ loopStarted <=> conn /= "none"
              /\ gaveUp => (attempt = max_retries - 1 /\ sleeps = max_retries - 1)

\* C19, its case: two attempts failed, the third succeeded, and the loop has
\* slept twice and started the network loop
C19_Witness ==
    TC /\ pc = "detect" /\ loopStarted /\ ~gaveUp /\ attempt = 2 /\ sleeps = 2
       /\ conn = "tcp"

\* C20: the acquisition mode of temp_control is decided once, by the device
\* probe at start-up, and no later step changes it: once the probe has run,
\* SIMULATE_SENSORS and data_mode keep their values through every tick, failed
\* or successful, and the two always agree.
C20_ModeDecidedOnce ==
    [][TC =>
          /\ modeVars' /= modeVars => (pc = "detect" /\ pc' = "acquire")
          /\ data_mode /= "unset" => UNCHANGED modeVars
          /\ data_mode' /= "unset" =>
                data_mode' = IF SIMULATE_SENSORS'
                             THEN "Simulated Data" ELSE "Live Data"]_vars

\* C20, its case: the probe found no device, and a tick in simulated mode has
\* been dispatched and the next one is about to start
C20_Witness ==
    TC /\ pc = "acquire" /\ SIMULATE_SENSORS /\ data_mode = "Simulated Data"
       /\ tempSrc = "sim" /\ Attempted(sinks.busR)

\* C21 (as the spec states it): each tick of beerpi attempts exactly one
\* time-series point, after the two bus publishes of the tick, whose relay field
\* is 1 if and only if the relay state is ON and whose temperature field is the
\* sample's temperature.
C21_Original ==
    BP =>
        /\ pc = "bp_sleep" => (Attempted(sinks.ts) /\ point.written)
        /\ point.written =>
              /\ Attempted(sinks.busT) /\ Attempted(sinks.busR)
              /\ point.relay = (IF relay_state = "ON" THEN 1 ELSE 0)
              /\ point.temperature = temperature

\* C21 (amended): a tick of beerpi whose two bus publishes returned attempts
\* exactly one time-series point, after them and before the sleep; its relay
\* field is 1 if and only if the relay state is ON, and its temperature field
\* is the sample's temperature, or 0 when the sample has none.  A tick that a
\* raising publish ended has attempted no point.
C21_OnePointAfterPublishes ==
    [][BP =>
          /\ (point' /= point /\ point'.written) =>
                /\ pc = "bp_influx" /\ pc' = "bp_sleep"
                /\ ~point.written /\ sinks.ts = "none"
                /\ Attempted(sinks.busT) /\ Attempted(sinks.busR)
                /\ Attempted(sinks'.ts)
                /\ point'.relay = (IF relay_state = "ON" THEN 1 ELSE 0)
                /\ point'.temperature = (IF temperature = None THEN 0 ELSE temperature)
          /\ (sinks'.ts /= sinks.ts /\ Attempted(sinks'.ts)) =>
                (point' /= point /\ point'.written)
          /\ (pc' = "bp_sleep" /\ pc /= "bp_sleep") => point'.written
          /\ pc' = "exc_tick" => (~point'.written /\ sinks'.ts = "none")]_vars

\* C21, its case: a tick without a temperature and with an unknown relay state
\* wrote its point, both fields 0
C21_Witness ==
    BP /\ pc = "bp_sleep" /\ temperature = None /\ relay_state = "UNKNOWN"
       /\ point.written /\ point.temperature = 0 /\ point.relay = 0
       /\ Attempted(sinks.ts)

\* a step in which the network thread handed a message to on_message
Delivered ==
    /\ TC /\ loopStarted /\ nt = "idle" /\ conn = "connected"
    /\ pc' = pc /\ conn' = conn

\* C22 (as the spec states it): on_message sets current_temperature to the
\* payload of a message on home/beerpi/temperature and current_relay_state to
\* the payload of a message on home/beerpi/relay_state, and leaves the other
\* variable, and both on any other topic, unchanged; so each variable holds the
\* payload of the last message on its topic, or its initial value.
C22_Original ==
    [][\A topic \in MsgTopics, payload \in MsgPayloads :
          (Delivered /\ on_message(topic, payload)) =>
              /\ topic = T_TEMP =>
                    /\ current_temperature' = payload
                    /\ current_relay_state' = current_relay_state
              /\ topic = T_RELAY =>
                    /\ current_relay_state' = payload
                    /\ current_temperature' = current_temperature
              /\ topic \notin {T_TEMP, T_RELAY} => UNCHANGED msgVars]_vars

====
